---- MODULE Spec2Model ----
(***************************************************************************)
(* A model of shplitter (src/main.py): the interactive prompt loop of      *)
(* main, the acquisition, analysis and separation calls it makes, the      *)
(* per-stem persistence loop of split_audio, and the key decision of       *)
(* detect_key_and_bpm.                                                     *)
(*                                                                         *)
(* Python strings are modelled as sequences of one-character strings, so   *)
(* that lower(), replace(), basename(), splitext() and the f-string that   *)
(* names the output directory are computed character by character.         *)
(* A float BPM is modelled in tenths: the integer 1287 stands for 128.7.   *)
(* The chroma profile is modelled with exact (integer) arithmetic.         *)
(***************************************************************************)
EXTENDS Integers, Sequences, FiniteSets, TLC

VARIABLES
    pc,                 \* position of main: prompt, download, exists, analyze,
                        \* name, split, save; exited after the break; crashed
                        \* after an exception no handler caught; chroma and
                        \* decided in the specification of the key decision
    url,                \* the last line read by input()
    input_path,         \* main's input_path
    disk,               \* the audio files present under inputs/
    key,                \* the key label returned by detect_key_and_bpm
    bpm,                \* the tempo returned by detect_key_and_bpm (tenths)
    new_output_folder,  \* main's new_output_folder
    sources,            \* the stem names of the mapping the separator returned
    next_stem,          \* the position of split_audio's for loop in sources
    stdout,             \* what the current iteration printed
    trace,              \* the calls the current iteration made, in order
    dirs,               \* directories the current iteration created
    files,              \* stem files the current iteration wrote
    nurls,              \* URLs read so far
    chroma_mean,        \* detect_key_and_bpm's chroma_mean
    factor,             \* the factor chroma_mean was scaled by
    base_key            \* the decision taken before the profile was scaled

vars == <<pc, url, input_path, disk, key, bpm, new_output_folder, sources,
          next_stem, stdout, trace, dirs, files, nurls, chroma_mean, factor, base_key>>

(***************************************************************************)
(* Bounds of the model.                                                    *)
(***************************************************************************)
\* URLs read by one run of the prompt loop.
MaxUrls == 3
\* Stems in the mapping the separator returns.
MaxStems == 4
\* Total energy of a chroma profile (the sum of its 12 bins).
MaxEnergy == 4
\* Largest factor a chroma profile is scaled by.
MaxFactor == 3

(***************************************************************************)
(* Python's string operations, on sequences of characters.                 *)
(***************************************************************************)
UpperCase == <<"A","B","C","D","E","F","G","H","I","J","K","L","M",
               "N","O","P","Q","R","S","T","U","V","W","X","Y","Z">>
LowerCase == <<"a","b","c","d","e","f","g","h","i","j","k","l","m",
               "n","o","p","q","r","s","t","u","v","w","x","y","z">>

\* str.lower() on one character: an upper-case letter maps to its lower-case
\* letter, every other character to itself.
LowerChar(c) ==
    IF \E i \in 1..Len(UpperCase) : UpperCase[i] = c
    THEN LowerCase[CHOOSE i \in 1..Len(UpperCase) : UpperCase[i] = c]
    ELSE c

\* str.lower()
lower(s) == [i \in 1..Len(s) |-> LowerChar(s[i])]

\* str.replace(old, new): every non-overlapping occurrence, left to right.
RECURSIVE replace(_, _, _)
replace(s, old, new) ==
    IF Len(s) < Len(old) THEN s
    ELSE IF SubSeq(s, 1, Len(old)) = old
         THEN new \o replace(SubSeq(s, Len(old) + 1, Len(s)), old, new)
         ELSE <<s[1]>> \o replace(Tail(s), old, new)

\* str.rfind(ch) + 1: the last position of ch in s, 0 when absent.
LastIndex(s, ch) ==
    IF \E i \in 1..Len(s) : s[i] = ch
    THEN CHOOSE i \in 1..Len(s) :
            /\ s[i] = ch
            /\ \A j \in (i + 1)..Len(s) : s[j] # ch
    ELSE 0

\* os.path.basename: what follows the last "/".
basename(p) == SubSeq(p, LastIndex(p, "/") + 1, Len(p))

\* os.path.splitext(p)[0]: p up to its last ".", unless that dot is in the
\* directory part or only dots precede it in the file name.
splitext_root(p) ==
    LET sep == LastIndex(p, "/")
        dot == LastIndex(p, ".")
    IN  IF dot > sep /\ \E i \in (sep + 1)..(dot - 1) : p[i] # "."
        THEN SubSeq(p, 1, dot - 1)
        ELSE p

\* os.path.join(a, b) of two components.
path_join(a, b) ==
    IF Len(b) > 0 /\ b[1] = "/" THEN b
    ELSE IF Len(a) = 0 \/ a[Len(a)] = "/" THEN a \o b
    ELSE a \o <<"/">> \o b

\* os.path.dirname
dirname(p) ==
    LET sep == LastIndex(p, "/")
    IN  IF sep <= 1 THEN SubSeq(p, 1, sep) ELSE SubSeq(p, 1, sep - 1)

DigitChars == <<"0","1","2","3","4","5","6","7","8","9">>

\* str(n) of a non-negative int
RECURSIVE DigitsOf(_)
DigitsOf(n) ==
    IF n < 10 THEN <<DigitChars[n + 1]>>
    ELSE DigitsOf(n \div 10) \o <<DigitChars[(n % 10) + 1]>>

\* str(n) of an int, as the f-string formats it
str_int(n) == IF n < 0 THEN <<"-">> \o DigitsOf(-n) ELSE DigitsOf(n)

\* int(x) of a float x given in tenths: truncation toward zero.
int_of_float(x) == IF x >= 0 THEN x \div 10 ELSE -((-x) \div 10)

(***************************************************************************)
(* detect_key_and_bpm: the key decision.                                   *)
(***************************************************************************)
major_profile == <<1, 0, 1, 0, 1, 1, 0, 1, 0, 1, 0, 1>>
minor_profile_harmonic == <<1, 0, 1, 1, 0, 1, 0, 1, 1, 0, 0, 1>>
minor_profile == <<1, 0, 1, 1, 0, 1, 0, 1, 1, 0, 1, 0>>

keys == << <<"C">>, <<"C","#">>, <<"D">>, <<"D","#">>, <<"E">>, <<"F">>,
           <<"F","#">>, <<"G">>, <<"G","#">>, <<"A">>, <<"A","#">>, <<"B">> >>

\* np.roll(a, i): the element at 0-based position j moves to (j + i) mod 12.
roll(a, i) == [j \in 1..Len(a) |-> a[((j - 1 - i) % Len(a)) + 1]]

RECURSIVE SumTo(_, _, _)
SumTo(a, b, n) == IF n = 0 THEN 0 ELSE SumTo(a, b, n - 1) + a[n] * b[n]

\* A dot product over a chroma clipped at 2 per bin.
dot_clipped(a, b) == SumTo(a, [j \in 1..Len(b) |-> IF b[j] > 2 THEN 2 ELSE b[j]], Len(a))
\* np.dot(a, b)
dot(a, b) == SumTo(a, b, Len(a))

\* [np.dot(np.roll(profile, i), chroma_mean) for i in range(n)]; the score of
\* rotation i is element i + 1.
RECURSIVE score_list(_, _, _)
score_list(profile, c, n) ==
    IF n = 0 THEN <<>>
    ELSE Append(score_list(profile, c, n - 1), dot(roll(profile, n - 1), c))

scores(profile, c) == score_list(profile, c, 12)
major_scores(c) == scores(major_profile, c)
minor_scores(c) == scores(minor_profile, c)

\* max(list)
max(s) == CHOOSE m \in {s[i] : i \in 1..Len(s)} : \A i \in 1..Len(s) : s[i] <= m

\* np.argmax(list): the first (0-based) index holding the maximum.
argmax(s) ==
    LET m == max(s)
    IN  (CHOOSE i \in 1..Len(s) :
            /\ s[i] = m
            /\ \A j \in 1..(i - 1) : s[j] # m) - 1

best_major(c) == argmax(major_scores(c))
best_minor(c) == argmax(minor_scores(c))

\* The comparison of line 63 with >= in place of >.
major_wins_on_tie(majors, minors) == max(majors) >= max(minors)
\* if max(major_scores) > max(minor_scores)
major_wins(majors, minors) == max(majors) > max(minors)

\* Lines 56-66: the mode chosen, the rotation index selected and the label.
decision(c) ==
    LET majors == major_scores(c)
        minors == minor_scores(c)
    IN  IF major_wins(majors, minors)
        THEN [mode |-> "major", index |-> argmax(majors),
              label |-> keys[argmax(majors) + 1] \o <<" ","m","a","j","o","r">>]
        ELSE [mode |-> "minor", index |-> argmax(minors),
              label |-> keys[argmax(minors) + 1] \o <<" ","m","i","n","o","r">>]

\* The key label detect_key_and_bpm returns (line 68).
detect_key(c) == decision(c).label

(***************************************************************************)
(* The inputs the model draws from.                                        *)
(***************************************************************************)
\* Lines typed at the prompt: the exit token in four letter cases, and
\* strings that are not the exit token.
Inputs ==
    { <<"e","x","i","t">>, <<"E","X","I","T">>, <<"E","x","i","t">>,
      <<"e","X","i","T">>, <<"e","x","i","t"," ">>, <<"e","x","i">>,
      <<"h","t","t","p",":","/","/","y","t","/","1">>, <<>> }

\* Titles and container extensions the downloader reports for a URL.
Titles == { <<"S","o","n","g">>, <<"T","r","a","c","k">>, <<"a",".","b">> }
Exts == { <<"w","e","b","m">>, <<"m","4","a">>, <<"o","p","u","s">> }

\* Tempos the beat tracker returns, in tenths of a BPM.
Tempos == { 5, 954, 1280, 1287, 1299 }

\* The stems of the separation model, in the order of its mapping.
StemNames ==
    << <<"d","r","u","m","s">>, <<"b","a","s","s">>, <<"o","t","h","e","r">>,
       <<"v","o","c","a","l","s">>, <<"g","u","i","t","a","r">>,
       <<"p","i","a","n","o">> >>

\* Chroma profiles with n bins whose energies sum to at most e.
RECURSIVE Profiles(_, _)
Profiles(n, e) ==
    IF n = 0 THEN { <<>> }
    ELSE UNION { { Append(p, v) : p \in Profiles(n - 1, e - v) } : v \in 0..e }

ZeroProfile == [j \in 1..12 |-> 0]

\* Chroma profiles the pipeline's analysis step draws from: silence, the
\* pitch classes of D minor, the pitch classes of C major, and a single C.
PipelineProfiles ==
    { ZeroProfile,
      <<1, 0, 1, 0, 1, 1, 0, 1, 0, 1, 1, 0>>,
      <<1, 0, 1, 0, 1, 1, 0, 1, 0, 1, 0, 1>>,
      <<1, 0, 0, 0, 0, 0, 0, 0, 0, 0, 0, 0>> }

NoDecision == [mode |-> "none", index |-> 0, label |-> <<>>]

(***************************************************************************)
(* main and split_audio.                                                   *)
(***************************************************************************)
download_folder == <<"i","n","p","u","t","s">>
output_folder == <<"o","u","t","p","u","t","s">>

Ext_webm == <<".","w","e","b","m">>
Ext_m4a == <<".","m","4","a">>
Ext_mp3 == <<".","m","p","3">>
Ext_wav == <<".","w","a","v">>

\* One printed line: its fixed text and the value formatted into it.
Line(text, arg) == [text |-> text, arg |-> arg]
\* One call made: the callee and its argument.
Call(callee, arg) == [call |-> callee, arg |-> arg]

\* str(bool)
str_bool(b) == IF b THEN <<"T","r","u","e">> ELSE <<"F","a","l","s","e">>

\* ydl.prepare_filename(result) under outtmpl "inputs/%(title)s.%(ext)s"
prepare_filename(title, ext) == path_join(download_folder, title \o <<".">> \o ext)

\* The value download_audio returns (lines 27-33).
downloaded_file(title, ext) ==
    replace(replace(prepare_filename(title, ext), Ext_webm, Ext_mp3), Ext_m4a, Ext_mp3)

\* url.lower() == "exit"
is_exit(u) == lower(u) = <<"e","x","i","t">>

\* song_title (line 126)
song_title(path) == splitext_root(basename(path))

\* The folder name of line 130 with round() in place of int().
folder_name_rounded(title, k, tempo) ==
    title \o <<"_">> \o k \o <<"_">> \o str_int((tempo + 5) \div 10)
\* f"{song_title}_{key}_{int(bpm)}"
folder_name(title, k, tempo) ==
    title \o <<"_">> \o k \o <<"_">> \o str_int(int_of_float(tempo))

Init ==
    /\ pc = "prompt"
    /\ url = <<>>
    /\ input_path = <<>>
    /\ disk = {}
    /\ key = <<>>
    /\ bpm = 0
    /\ new_output_folder = <<>>
    /\ sources = <<>>
    /\ next_stem = 1
    /\ stdout = <<>>
    /\ trace = <<>>
    /\ dirs = {}
    /\ files = {}
    /\ nurls = 0
    /\ chroma_mean = ZeroProfile
    /\ factor = 1
    /\ base_key = NoDecision

KeyVars == <<chroma_mean, factor, base_key>>

\* Lines 111-113: read a line; the exit token breaks the loop.  The locals of
\* the previous iteration are dead here (each is assigned before it is read).
Prompt ==
    /\ pc = "prompt"
    /\ nurls < MaxUrls
    /\ \E u \in Inputs :
        /\ url' = u
        /\ pc' = IF is_exit(u) THEN "exited" ELSE "download"
    /\ nurls' = nurls + 1
    /\ input_path' = <<>>
    /\ disk' = {}
    /\ key' = <<>>
    /\ bpm' = 0
    /\ new_output_folder' = <<>>
    /\ sources' = <<>>
    /\ next_stem' = 1
    /\ stdout' = <<>>
    /\ trace' = <<>>
    /\ dirs' = {}
    /\ files' = {}
    /\ chroma_mean' = ZeroProfile
    /\ UNCHANGED <<factor, base_key>>

\* Line 116, download_audio returning: the path it derives, and whether the
\* transcoder left the mp3 on disk.
DownloadReturns ==
    /\ pc = "download"
    /\ \E title \in Titles, ext \in Exts, produced \in BOOLEAN :
        /\ input_path' = downloaded_file(title, ext)
        /\ disk' = IF produced
                   THEN { path_join(download_folder, title \o Ext_mp3) }
                   ELSE {}
    /\ trace' = Append(trace, Call("download_audio", url))
    /\ pc' = "exists"
    /\ UNCHANGED <<url, key, bpm, new_output_folder, sources, next_stem, stdout, dirs,
                   files, nurls, KeyVars>>

\* Line 116, extract_info raising: nothing in main catches it.
DownloadRaises ==
    /\ pc = "download"
    /\ trace' = Append(trace, Call("download_audio", url))
    /\ pc' = "crashed"
    /\ UNCHANGED <<url, input_path, disk, key, bpm, new_output_folder, sources,
                   next_stem, stdout, dirs, files, nurls, KeyVars>>

\* os.path.exists(path) answering for the download folder instead of the file.
exists_folder(path, d) == dirname(path) = download_folder
\* os.path.exists(path), on the files d now on disk
exists(path, d) == path \in d

\* Lines 117-119
CheckExists ==
    /\ pc = "exists"
    /\ IF exists(input_path, disk)
       THEN /\ pc' = "analyze"
            /\ UNCHANGED stdout
       ELSE /\ stdout' = Append(stdout, Line("Error downloading the file.", <<>>))
            /\ pc' = "prompt"
    /\ UNCHANGED <<url, input_path, disk, key, bpm, new_output_folder, sources,
                   next_stem, trace, dirs, files, nurls, KeyVars>>

\* Lines 122-123, detect_key_and_bpm returning.
AnalyzeReturns ==
    /\ pc = "analyze"
    /\ \E c \in PipelineProfiles, tempo \in Tempos :
        /\ chroma_mean' = c
        /\ key' = detect_key(c)
        /\ bpm' = tempo
        /\ stdout' = Append(stdout, Line("Detected Key", detect_key(c)))
    /\ trace' = Append(trace, Call("detect_key_and_bpm", input_path))
    /\ pc' = "name"
    /\ UNCHANGED <<url, input_path, disk, new_output_folder, sources, next_stem, dirs,
                   files, nurls, factor, base_key>>

\* Line 122, the decoder or an estimator raising: nothing in main catches it.
AnalyzeRaises ==
    /\ pc = "analyze"
    /\ trace' = Append(trace, Call("detect_key_and_bpm", input_path))
    /\ pc' = "crashed"
    /\ UNCHANGED <<url, input_path, disk, key, bpm, new_output_folder, sources,
                   next_stem, stdout, dirs, files, nurls, KeyVars>>

\* Lines 126-132
Name ==
    /\ pc = "name"
    /\ new_output_folder' =
          path_join(output_folder, folder_name(song_title(input_path), key, bpm))
    /\ dirs' = dirs \cup { new_output_folder' }
    /\ trace' = Append(trace, Call("makedirs", new_output_folder'))
    /\ pc' = "split"
    /\ UNCHANGED <<url, input_path, disk, key, bpm, sources, next_stem, stdout, files,
                   nurls, KeyVars>>

\* Line 132, os.makedirs raising: nothing in main catches it.
NameRaises ==
    /\ pc = "name"
    /\ new_output_folder' =
          path_join(output_folder, folder_name(song_title(input_path), key, bpm))
    /\ trace' = Append(trace, Call("makedirs", new_output_folder'))
    /\ pc' = "crashed"
    /\ UNCHANGED <<url, input_path, disk, key, bpm, sources, next_stem, stdout,
                   dirs, files, nurls, KeyVars>>

\* Lines 72-84, the separator returning its mapping.
SeparateReturns ==
    /\ pc = "split"
    /\ \E n \in 0..MaxStems :
        /\ n <= Len(StemNames)
        /\ sources' = SubSeq(StemNames, 1, n)
    /\ next_stem' = 1
    /\ stdout' = Append(stdout, Line("Splitting audio", input_path))
    /\ trace' = Append(trace, Call("separate_audio_file", input_path))
    /\ dirs' = dirs \cup { new_output_folder }
    /\ pc' = "save"
    /\ UNCHANGED <<url, input_path, disk, key, bpm, new_output_folder, files,
                   nurls, KeyVars>>

\* Lines 72-81, the model invocation raising: neither split_audio nor main
\* catches it.
SeparateRaises ==
    /\ pc = "split"
    /\ stdout' = Append(stdout, Line("Splitting audio", input_path))
    /\ trace' = Append(trace, Call("separate_audio_file", input_path))
    /\ pc' = "crashed"
    /\ UNCHANGED <<url, input_path, disk, key, bpm, new_output_folder, sources,
                   next_stem, dirs, files, nurls, KeyVars>>

\* The target of line 88
out_path(source) == path_join(new_output_folder, source \o Ext_wav)

\* The for loop of line 87 staying on the stem whose write failed.
retry_stem(i) == i
\* The for loop of line 87 moving to the next item of the mapping.
following_stem(i) == i + 1

\* Lines 88-91: the write of the next stem succeeds.
SaveStemOk ==
    /\ pc = "save"
    /\ next_stem <= Len(sources)
    /\ LET source == sources[next_stem]
           out == out_path(source)
       IN  /\ files' = files \cup { out }
           /\ stdout' = Append(stdout, Line("Saved", source))
           /\ trace' = Append(trace, Call("save_audio", out))
    /\ next_stem' = following_stem(next_stem)
    /\ pc' = "save"
    /\ UNCHANGED <<url, input_path, disk, key, bpm, new_output_folder, sources,
                   dirs, nurls, KeyVars>>

\* The handler of lines 92-98 letting the exception go on.
handler_reraises == "crashed"
\* Lines 92-98: the handler swallows the exception and the loop goes on.
after_handler == "save"

\* Lines 88-98: save_audio raises and the handler prints the diagnostics.
SaveStemFails ==
    /\ pc = "save"
    /\ next_stem <= Len(sources)
    /\ LET source == sources[next_stem]
           out == out_path(source)
       IN  /\ stdout' = stdout \o
                << Line("Error saving", source),
                   Line("Current working directory", <<>>),
                   Line("Output folder", new_output_folder),
                   Line("File path", out),
                   Line("File path exists", str_bool(dirname(out) \in dirs)),
                   Line("File path writable", <<>>) >>
           /\ trace' = Append(trace, Call("save_audio", out))
    /\ next_stem' = following_stem(next_stem)
    /\ pc' = after_handler
    /\ UNCHANGED <<url, input_path, disk, key, bpm, new_output_folder, sources,
                   dirs, files, nurls, KeyVars>>

\* Line 100, and the return to the prompt.
Completed ==
    /\ pc = "save"
    /\ next_stem > Len(sources)
    /\ stdout' = Append(stdout, Line("Audio splitting completed.", <<>>))
    /\ pc' = "prompt"
    /\ UNCHANGED <<url, input_path, disk, key, bpm, new_output_folder, sources,
                   next_stem, trace, dirs, files, nurls, KeyVars>>

Next ==
    \/ Prompt
    \/ DownloadReturns
    \/ DownloadRaises
    \/ CheckExists
    \/ AnalyzeReturns
    \/ AnalyzeRaises
    \/ Name
    \/ NameRaises
    \/ SeparateReturns
    \/ SeparateRaises
    \/ SaveStemOk
    \/ SaveStemFails
    \/ Completed

Spec == Init /\ [][Next]_vars

(***************************************************************************)
(* The key decision on its own: every chroma profile of bounded energy is  *)
(* decided, scaled by a positive factor, and decided again.                *)
(***************************************************************************)
\* k * chroma_mean
scaled(c, k) == [j \in 1..Len(c) |-> k * c[j]]

KeyInit ==
    /\ pc = "chroma"
    /\ chroma_mean \in Profiles(12, MaxEnergy)
    /\ factor = 1
    /\ base_key = NoDecision
    /\ key = <<>>
    /\ url = <<>>
    /\ input_path = <<>>
    /\ disk = {}
    /\ bpm = 0
    /\ new_output_folder = <<>>
    /\ sources = <<>>
    /\ next_stem = 1
    /\ stdout = <<>>
    /\ trace = <<>>
    /\ dirs = {}
    /\ files = {}
    /\ nurls = 0

PipelineVars == <<url, input_path, disk, bpm, new_output_folder, sources, next_stem,
                  stdout, trace, dirs, files, nurls>>

\* Lines 56-66 on the current profile.
Decide ==
    /\ pc = "chroma"
    /\ LET d == decision(chroma_mean)
       IN  /\ key' = d.label
           /\ base_key' = IF factor = 1 THEN d ELSE base_key
    /\ pc' = "decided"
    /\ UNCHANGED <<chroma_mean, factor, PipelineVars>>

\* The same audio at another level: every bin times k.
Scale ==
    /\ pc = "decided"
    /\ factor = 1
    /\ \E k \in 2..MaxFactor :
        /\ factor' = k
        /\ chroma_mean' = scaled(chroma_mean, k)
    /\ key' = <<>>
    /\ pc' = "chroma"
    /\ UNCHANGED <<base_key, PipelineVars>>

KeyNext == Decide \/ Scale

KeySpec == KeyInit /\ [][KeyNext]_vars

(***************************************************************************)
(* Vocabulary of the properties.                                           *)
(***************************************************************************)
\* The callee of the last call the current iteration made.
LastCall == IF trace = <<>> THEN "none" ELSE trace[Len(trace)].call

\* The callees of the current iteration, in order.
Callees == [i \in 1..Len(trace) |-> trace[i].call]

\* The positions of the trace that call callee.
CallsOf(callee) == { i \in 1..Len(trace) : trace[i].call = callee }

\* The texts of the lines printed by the current iteration.
Printed == { stdout[i].text : i \in 1..Len(stdout) }

\* The line read is the word exit in some letter case.
ExitToken ==
    /\ Len(url) = 4
    /\ url[1] \in {"e", "E"}
    /\ url[2] \in {"x", "X"}
    /\ url[3] \in {"i", "I"}
    /\ url[4] \in {"t", "T"}

\* The process is still in its prompt loop.
Running == pc \notin {"exited", "crashed"}

(***************************************************************************)
(* C1.  A failure of the analysis call or of the separation call is        *)
(* contained at the loop boundary: the process does not terminate on it.   *)
(* The code has no handler around either call, so this is violated.        *)
(***************************************************************************)
C1_AnalysisAndSeparationContained ==
    LastCall \in {"detect_key_and_bpm", "separate_audio_file"} => pc # "crashed"

(***************************************************************************)
(* C2.  An acquisition failure of either kind (download_audio raising, or  *)
(* returning a path with no file) is caught at the loop boundary and       *)
(* reported: the process keeps running, and once the iteration is over a   *)
(* message was printed.  The code has no handler around download_audio, so *)
(* this is violated when it raises.                                        *)
(***************************************************************************)
C2_AcquisitionContained ==
    LastCall = "download_audio" =>
        /\ Running
        /\ (pc = "prompt" => "Error downloading the file." \in Printed)

(***************************************************************************)
(* C3.  When download_audio returned a path at which no file exists, the   *)
(* iteration ends at the prompt without raising, having printed exactly    *)
(* "Error downloading the file." and having made no other call: no         *)
(* analysis, no output directory, no separation, no stem written.          *)
(***************************************************************************)
C3_MissingFileAborts ==
    (/\ Len(trace) >= 1
     /\ input_path \notin disk
     /\ pc \notin {"download", "exists", "crashed"})
    =>  /\ pc = "prompt"
        /\ stdout = << Line("Error downloading the file.", <<>>) >>
        /\ Callees = << "download_audio" >>
        /\ dirs = {}
        /\ files = {}

\* A download that returned the path of a file that is not there, while the
\* transcoder's mp3 is: the iteration is over.
C3_Witness ==
    /\ pc = "prompt"
    /\ Callees = << "download_audio" >>
    /\ input_path # <<>>
    /\ disk # {}
    /\ input_path \notin disk

(***************************************************************************)
(* C5.  The exit token in any letter case ends the loop with nothing       *)
(* attempted, every other line is passed to acquisition, and the loop ends *)
(* only through the exit token.  The last part is violated: an exception   *)
(* of acquisition, analysis or separation ends the loop too.               *)
(***************************************************************************)
C5_LoopEndsOnlyOnExit ==
    /\ (pc = "exited" => ExitToken /\ trace = <<>> /\ stdout = <<>>)
    /\ (nurls > 0 /\ ExitToken => pc = "exited")
    /\ (nurls > 0 /\ ~ExitToken /\ pc # "download" =>
            Len(trace) >= 1 /\ trace[1] = Call("download_audio", url))
    /\ (~Running => pc = "exited" /\ ExitToken)

(***************************************************************************)
(* C4.  In split_audio's persistence loop, whatever mapping the separator  *)
(* returned and whichever writes fail: the stems are attempted in the      *)
(* order of the mapping, each exactly once, at                             *)
(* {output_folder}/{stem_name}.wav; a stem is on disk exactly when its     *)
(* write did not fail; no failure stops the loop or raises; and the        *)
(* function ends by printing "Audio splitting completed.".                 *)
(***************************************************************************)
IsSave(c) == c.call = "save_audio"
Saves == SelectSeq(trace, IsSave)

\* The separator returned its mapping in the current iteration.
Separated ==
    \/ pc = "save"
    \/ LastCall = "save_audio"
    \/ LastCall = "separate_audio_file" /\ pc # "crashed"

StemSaved(i) == \E l \in 1..Len(stdout) : stdout[l] = Line("Saved", sources[i])
StemFailed(i) == \E l \in 1..Len(stdout) : stdout[l] = Line("Error saving", sources[i])

C4_EveryStemAttemptedOnce ==
    Separated =>
        /\ pc \in {"save", "prompt"}
        /\ Len(Saves) = next_stem - 1
        /\ Len(Saves) <= Len(sources)
        /\ \A i \in 1..Len(Saves) :
              /\ Saves[i].arg = new_output_folder \o <<"/">> \o sources[i]
                                    \o <<".", "w", "a", "v">>
              /\ StemSaved(i) # StemFailed(i)
              /\ StemSaved(i) <=> Saves[i].arg \in files
        /\ Cardinality(files) = Cardinality({ i \in 1..Len(Saves) : StemSaved(i) })
        /\ (pc = "prompt" =>
              /\ Len(Saves) = Len(sources)
              /\ stdout[Len(stdout)] = Line("Audio splitting completed.", <<>>))

\* Four stems, one write failed: the other three are on disk and the run
\* reported completion.
C4_Witness ==
    /\ pc = "prompt"
    /\ Len(sources) = 4
    /\ Cardinality(files) = 3
    /\ StemFailed(2)
    /\ stdout[Len(stdout)] = Line("Audio splitting completed.", <<>>)

(***************************************************************************)
(* C7.  The output directory main creates is                               *)
(* outputs/{title}_{key label}_{n}: title is the acquired file's base name *)
(* without its extension, the key label is a pitch class, a space and the  *)
(* mode, and n is the BPM truncated by floor (k <= bpm < k + 1 gives k),   *)
(* never rounded.  Song, D minor, 128.7 gives Song_D minor_128.            *)
(***************************************************************************)
KeyLabels ==
    { keys[i] \o <<" ">> \o m :
        i \in 1..12, m \in { <<"m","a","j","o","r">>, <<"m","i","n","o","r">> } }

\* The name was built in the current iteration.
Named == "makedirs" \in { Callees[i] : i \in 1..Len(trace) }

C7_FolderNameFloorsBpm ==
    Named =>
        /\ key \in KeyLabels
        /\ \E title \in Titles, ext \in { <<"m","p","3">>, <<"o","p","u","s">> } :
              /\ input_path = <<"i","n","p","u","t","s","/">> \o title \o <<".">> \o ext
              /\ \E n \in 0..200 :
                    /\ 10 * n <= bpm
                    /\ bpm < 10 * (n + 1)
                    /\ new_output_folder =
                          <<"o","u","t","p","u","t","s","/">> \o title \o <<"_">>
                              \o key \o <<"_">> \o str_int(n)
        /\ (/\ input_path = <<"i","n","p","u","t","s","/","S","o","n","g",".","m","p","3">>
            /\ key = <<"D"," ","m","i","n","o","r">>
            /\ bpm = 1287)
           => new_output_folder =
                 <<"o","u","t","p","u","t","s","/","S","o","n","g","_",
                   "D"," ","m","i","n","o","r","_","1","2","8">>

\* Song.mp3 analysed as D minor at 128.7 BPM, and its directory created.
C7_Witness ==
    /\ Named
    /\ input_path = <<"i","n","p","u","t","s","/","S","o","n","g",".","m","p","3">>
    /\ key = <<"D"," ","m","i","n","o","r">>
    /\ bpm = 1287
    /\ new_output_folder \in dirs

(***************************************************************************)
(* C9.  Within one iteration the stages run in the order acquire, analyze, *)
(* name and create the directory, separate, persist; each is invoked at    *)
(* most once per URL and no stem is written twice; none is skipped:        *)
(* analysis runs only on a file acquisition left on disk, separation only  *)
(* after the directory was named from the analysis result, a stem write    *)
(* only after separation returned; and the prompt is reached only when no  *)
(* stage of the current URL is pending.                                    *)
(***************************************************************************)
Rank(callee) ==
    CASE callee = "download_audio" -> 1
      [] callee = "detect_key_and_bpm" -> 2
      [] callee = "makedirs" -> 3
      [] callee = "separate_audio_file" -> 4
      [] callee = "save_audio" -> 5

Major == <<" ","m","a","j","o","r">>
Minor == <<" ","m","i","n","o","r">>

\* The last six characters of a label.
ModeOf(label) == SubSeq(label, Len(label) - 5, Len(label))
\* What precedes them.
PitchClassOf(label) == SubSeq(label, 1, Len(label) - 6)

\* The two maxima of line 63 are equal.
TieOf(majors, minors) == max(majors) = max(minors)
Tie == TieOf(major_scores(chroma_mean), minor_scores(chroma_mean))

\* The mode and the pitch class of the label returned.
ReturnedMode == ModeOf(key)
ReturnedPitchClass == PitchClassOf(key)

\* How many rotations of a score list hold the value v.
Count(s, v) == Cardinality({ i \in 1..Len(s) : s[i] = v })

(***************************************************************************)
(* C6, as stated.  When the maximum major score equals the maximum minor   *)
(* score, the returned label has mode major, with the pitch class of the   *)
(* best major rotation.  The code compares with >, so this is violated.    *)
(***************************************************************************)
C6_TieGivesMajor ==
    pc = "decided" =>
        LET majors == major_scores(chroma_mean)
            minors == minor_scores(chroma_mean)
        IN  TieOf(majors, minors) =>
                /\ ReturnedMode = Major
                /\ ReturnedPitchClass = keys[argmax(majors) + 1]

(***************************************************************************)
(* C6, amended.  When the maximum major score equals the maximum minor     *)
(* score, the returned label has mode minor, with the pitch class of the   *)
(* best minor rotation.                                                    *)
(***************************************************************************)
C6_TieGivesMinor ==
    pc = "decided" =>
        LET majors == major_scores(chroma_mean)
            minors == minor_scores(chroma_mean)
        IN  TieOf(majors, minors) =>
                /\ ReturnedMode = Minor
                /\ ReturnedPitchClass = keys[argmax(minors) + 1]

\* A profile with energy on D, F and A has been decided, and the maxima tie.
C6_Witness ==
    /\ pc = "decided"
    /\ factor = 1
    /\ Tie
    /\ chroma_mean = <<0, 0, 2, 0, 0, 1, 0, 0, 0, 1, 0, 0>>

C10_AlwaysMinor ==
    /\ \A i \in 0..11 :
          roll(minor_profile, (i + 9) % 12) = roll(major_profile, i)
    /\ pc = "decided" =>
          LET majors == major_scores(chroma_mean)
              minors == minor_scores(chroma_mean)
          IN
          /\ \A i \in 0..11 : minors[((i + 9) % 12) + 1] = majors[i + 1]
          /\ \A v \in { majors[i] : i \in 1..12 } \cup { minors[i] : i \in 1..12 } :
                Count(minors, v) = Count(majors, v)
          /\ max(majors) = max(minors)
          /\ ~(max(majors) > max(minors))
          /\ ModeOf(key) = Minor
          /\ key \notin { keys[i] \o Major : i \in 1..12 }

\* A profile whose best major and best minor rotations differ, decided.
C10_Witness ==
    /\ pc = "decided"
    /\ best_major(chroma_mean) # best_minor(chroma_mean)
    /\ max(major_scores(chroma_mean)) = 4
    /\ key = <<"A">> \o Minor

====
